---- MODULE Spec2Model ----
(***************************************************************************)
(* The in-memory ledger of transacty (src/state/memory.rs) driven by       *)
(* process_events (src/lib.rs), as a state machine.                        *)
(*                                                                         *)
(* Amount is a u64 (primitives/amount.rs:38).  A u64 value v is written    *)
(* here by its two's-complement representative: v itself when v is small,  *)
(* and v - 2^64 (a negative number) when v is within reach of 2^64.        *)
(* Addition and subtraction of representatives are then exactly the u64    *)
(* operations modulo 2^64, and the unsigned order is ULt below.            *)
(***************************************************************************)
EXTENDS Integers, FiniteSets, Sequences, TLC

\* ---------------------------------------------------------------- bounds
MaxClient == 2
MaxTx == 2
MaxAmount == 2
MaxEvents == 3
SeedSteps == 1

\* events applied to the ledger of the chargeback test
LockSteps == 2
MaxSinkEvents == 17
MaxScaled == 12000

\* u64::MAX, the largest Amount (scaled value 2^64 - 1), as a representative
U64Max == 0 - 1

Clients == 1..MaxClient
TxIds == 1..MaxTx
Amounts == (0..MaxAmount) \cup {U64Max}

EventTypes == {"Deposit", "Withdrawal", "Dispute", "Resolve", "Chargeback"}

Event == [event_type : EventTypes, client : Clients, tx : TxIds, amount : Amounts]

\* ------------------------------------------------------ Amount arithmetic
\* Ord for Amount: the unsigned order of the u64 inside
ULt(a, b) == IF (a >= 0) = (b >= 0) THEN a < b ELSE a >= 0

ULe(a, b) == a = b \/ ULt(a, b)

\* u64 addition carries out of 64 bits
AddOverflows(a, b) == ULt(a + b, a)

\* u64 subtraction borrows
SubUnderflows(a, b) == ULt(a, b)

\* ------------------------------------------------------------- the ledger
EmptyMap == [k \in {} |-> 0]

Insert(m, k, v) == [x \in (DOMAIN m) \cup {k} |-> IF x = k THEN v ELSE m[x]]

\* ClientState::default()
DefaultClientState == [available |-> 0, held |-> 0, locked |-> FALSE]

\* impl From<Event> for DepositRecord
DepositRecordFrom(ev) == [event |-> ev, is_disputed |-> FALSE]

Outcome(cs, dep, res) == [client_state |-> cs, deposits |-> dep, result |-> res]

\* the Deposit arm filing the record under the client id, not under event.tx
HandleDeposit_KeyedByClient(cs, dep, ev, oc) ==
    LET had == ev.client \in DOMAIN cs
        old == IF had THEN cs[ev.client] ELSE DefaultClientState
        credited == Insert(cs, ev.client, [old EXCEPT !.available = @ + ev.amount])
    IN  IF oc /\ AddOverflows(old.available, ev.amount)
        THEN Outcome(Insert(cs, ev.client, old), dep, "Panic")
        ELSE IF ev.client \in DOMAIN dep
             THEN Outcome(credited, Insert(dep, ev.client, DepositRecordFrom(ev)),
                          "Panic")
             ELSE Outcome(credited, Insert(dep, ev.client, DepositRecordFrom(ev)),
                          "Ok")

\* EventType::Deposit arm.  oc: the build has overflow checks (debug).
HandleDeposit(cs, dep, ev, oc) ==
    LET had == ev.client \in DOMAIN cs
        old == IF had THEN cs[ev.client] ELSE DefaultClientState
        credited == Insert(cs, ev.client, [old EXCEPT !.available = @ + ev.amount])
    IN  IF oc /\ AddOverflows(old.available, ev.amount)
        THEN Outcome(Insert(cs, ev.client, old), dep, "Panic")
        ELSE IF ev.tx \in DOMAIN dep
             THEN Outcome(credited, Insert(dep, ev.tx, DepositRecordFrom(ev)), "Panic")
             ELSE Outcome(credited, Insert(dep, ev.tx, DepositRecordFrom(ev)), "Ok")

\* the sufficiency test of the Withdrawal arm written with <= in place of <
HandleWithdrawal_OffByOne(cs, dep, ev, oc) ==
    IF ev.client \notin DOMAIN cs
    THEN Outcome(cs, dep, "UnknownClient")
    ELSE LET state == cs[ev.client]
         IN  IF ULe(state.available, ev.amount)
             THEN Outcome(cs, dep, "InsufficientFunds")
             ELSE IF state.locked
                  THEN Outcome(cs, dep, "AccountLocked")
                  ELSE Outcome([cs EXCEPT ![ev.client].available = @ - ev.amount],
                               dep, "Ok")

\* the Withdrawal arm looking the client up with entry().or_default()
HandleWithdrawal_OrDefault(cs, dep, ev, oc) ==
    LET cs1 == IF ev.client \in DOMAIN cs THEN cs
               ELSE Insert(cs, ev.client, DefaultClientState)
        state == cs1[ev.client]
    IN  IF ULt(state.available, ev.amount)
        THEN Outcome(cs1, dep, "InsufficientFunds")
        ELSE IF state.locked
             THEN Outcome(cs1, dep, "AccountLocked")
             ELSE Outcome([cs1 EXCEPT ![ev.client].available = @ - ev.amount],
                          dep, "Ok")

\* the Withdrawal arm without the test of state.locked
HandleWithdrawal_IgnoresLock(cs, dep, ev, oc) ==
    IF ev.client \notin DOMAIN cs
    THEN Outcome(cs, dep, "UnknownClient")
    ELSE LET state == cs[ev.client]
         IN  IF ULt(state.available, ev.amount)
             THEN Outcome(cs, dep, "InsufficientFunds")
             ELSE Outcome([cs EXCEPT ![ev.client].available = @ - ev.amount],
                          dep, "Ok")

\* EventType::Withdrawal arm
HandleWithdrawal(cs, dep, ev, oc) ==
    IF ev.client \notin DOMAIN cs
    THEN Outcome(cs, dep, "UnknownClient")
    ELSE LET state == cs[ev.client]
         IN  IF ULt(state.available, ev.amount)
             THEN Outcome(cs, dep, "InsufficientFunds")
             ELSE IF state.locked
                  THEN Outcome(cs, dep, "AccountLocked")
                  ELSE Outcome([cs EXCEPT ![ev.client].available = @ - ev.amount],
                               dep, "Ok")

\* the Dispute arm looking up the client the event names, not the owner
HandleDispute_EventClient(cs, dep, ev, oc) ==
    IF ev.tx \notin DOMAIN dep
    THEN Outcome(cs, dep, "Ok")
    ELSE LET record == dep[ev.tx]
             amt == record.event.amount
         IN  IF record.event.event_type # "Deposit"
             THEN Outcome(cs, dep, "IllegalDispute")
             ELSE IF ev.client \notin DOMAIN cs
             THEN Outcome(cs, dep, "UnknownClient")
             ELSE IF oc /\ SubUnderflows(cs[ev.client].available, amt)
             THEN Outcome(cs, dep, "Panic")
             ELSE LET debited == [cs EXCEPT ![ev.client].available = @ - amt]
                  IN  IF oc /\ AddOverflows(cs[ev.client].held, amt)
                      THEN Outcome(debited, dep, "Panic")
                      ELSE Outcome([debited EXCEPT ![ev.client].held = @ + amt],
                                   dep, "Ok")

\* EventType::Dispute arm
HandleDispute(cs, dep, ev, oc) ==
    IF ev.tx \notin DOMAIN dep
    THEN Outcome(cs, dep, "Ok")
    ELSE LET record == dep[ev.tx]
             owner == record.event.client
             amt == record.event.amount
         IN  IF record.event.event_type # "Deposit"
             THEN Outcome(cs, dep, "IllegalDispute")
             ELSE IF owner \notin DOMAIN cs
             THEN Outcome(cs, dep, "UnknownClient")
             ELSE IF oc /\ SubUnderflows(cs[owner].available, amt)
             THEN Outcome(cs, dep, "Panic")
             ELSE LET debited == [cs EXCEPT ![owner].available = @ - amt]
                  IN  IF oc /\ AddOverflows(cs[owner].held, amt)
                      THEN Outcome(debited, dep, "Panic")
                      ELSE Outcome([debited EXCEPT ![owner].held = @ + amt], dep, "Ok")

\* EventType::Resolve arm
HandleResolve(cs, dep, ev, oc) ==
    IF ev.tx \notin DOMAIN dep
    THEN Outcome(cs, dep, "Ok")
    ELSE LET record == dep[ev.tx]
             owner == record.event.client
             amt == record.event.amount
         IN  IF ~record.is_disputed
             THEN Outcome(cs, dep, "Ok")
             ELSE IF owner \notin DOMAIN cs
             THEN Outcome(cs, dep, "UnknownClient")
             ELSE IF oc /\ SubUnderflows(cs[owner].held, amt)
             THEN Outcome(cs, dep, "Panic")
             ELSE LET released == [cs EXCEPT ![owner].held = @ - amt]
                  IN  IF oc /\ AddOverflows(cs[owner].available, amt)
                      THEN Outcome(released, dep, "Panic")
                      ELSE Outcome([released EXCEPT ![owner].available = @ + amt],
                                   dep, "Ok")

\* the Chargeback arm without the test of record.is_disputed
HandleChargeback_NoDisputeCheck(cs, dep, ev, oc) ==
    IF ev.tx \notin DOMAIN dep
    THEN Outcome(cs, dep, "Ok")
    ELSE LET record == dep[ev.tx]
             owner == record.event.client
             amt == record.event.amount
         IN  IF owner \notin DOMAIN cs
             THEN Outcome(cs, dep, "UnknownClient")
             ELSE IF oc /\ SubUnderflows(cs[owner].held, amt)
             THEN Outcome(cs, dep, "Panic")
             ELSE Outcome([cs EXCEPT ![owner].held = @ - amt, ![owner].locked = TRUE],
                          dep, "Ok")

\* EventType::Chargeback arm
HandleChargeback(cs, dep, ev, oc) ==
    IF ev.tx \notin DOMAIN dep
    THEN Outcome(cs, dep, "Ok")
    ELSE LET record == dep[ev.tx]
             owner == record.event.client
             amt == record.event.amount
         IN  IF ~record.is_disputed
             THEN Outcome(cs, dep, "Ok")
             ELSE IF owner \notin DOMAIN cs
             THEN Outcome(cs, dep, "UnknownClient")
             ELSE IF oc /\ SubUnderflows(cs[owner].held, amt)
             THEN Outcome(cs, dep, "Panic")
             ELSE Outcome([cs EXCEPT ![owner].held = @ - amt, ![owner].locked = TRUE],
                          dep, "Ok")

\* MemoryState::handle_event
handle_event(cs, dep, ev, oc) ==
    CASE ev.event_type = "Deposit" -> HandleDeposit(cs, dep, ev, oc)
      [] ev.event_type = "Withdrawal" -> HandleWithdrawal(cs, dep, ev, oc)
      [] ev.event_type = "Dispute" -> HandleDispute(cs, dep, ev, oc)
      [] ev.event_type = "Resolve" -> HandleResolve(cs, dep, ev, oc)
      [] ev.event_type = "Chargeback" -> HandleChargeback(cs, dep, ev, oc)

\* the balance subtractions handle_event performs on this ledger for this event
Subtractions(cs, dep, ev) ==
    CASE ev.event_type = "Withdrawal" ->
            IF /\ ev.client \in DOMAIN cs
               /\ ~ULt(cs[ev.client].available, ev.amount)
               /\ ~cs[ev.client].locked
            THEN {[balance |-> cs[ev.client].available, amount |-> ev.amount]}
            ELSE {}
      [] ev.event_type = "Dispute" ->
            IF /\ ev.tx \in DOMAIN dep
               /\ dep[ev.tx].event.event_type = "Deposit"
               /\ dep[ev.tx].event.client \in DOMAIN cs
            THEN {[balance |-> cs[dep[ev.tx].event.client].available,
                   amount |-> dep[ev.tx].event.amount]}
            ELSE {}
      [] ev.event_type \in {"Resolve", "Chargeback"} ->
            IF /\ ev.tx \in DOMAIN dep
               /\ dep[ev.tx].is_disputed
               /\ dep[ev.tx].event.client \in DOMAIN cs
            THEN {[balance |-> cs[dep[ev.tx].event.client].held,
                   amount |-> dep[ev.tx].event.amount]}
            ELSE {}
      [] OTHER -> {}

\* the variants of EventError that handle_event can return
EventErrors == {"DuplicateTransactionId", "InsufficientFunds", "AccountLocked",
                "DoubleDispute", "IllegalDispute", "UnknownClient", "StateError"}

\* the EventError value handle_event builds when it returns res for event ev
ErrorOf(ev, res) ==
    IF res = "UnknownClient" THEN <<res, ev.client>> ELSE <<res, ev.client, ev.tx>>

\* sync_channel(16): the bound of the error channel of main
Capacity == 16

\* ------------------------------------------- Amount: parsing and formatting
\* Texts are sequences of one-character strings.  The u64 inside an Amount is
\* written in this part as its sequence of decimal digits, most significant
\* first and without leading zeros (zero is <<0>>), so that values up to and
\* beyond 2^64 can be computed with.
DigitChars == <<"0", "1", "2", "3", "4", "5", "6", "7", "8", "9">>

IsDigit(ch) == \E i \in 1..10 : DigitChars[i] = ch

DigitVal(ch) == (CHOOSE i \in 1..10 : DigitChars[i] = ch) - 1

Front(q) == SubSeq(q, 1, Len(q) - 1)

Last(q) == q[Len(q)]

\* drop leading zeros
RECURSIVE Norm(_)
Norm(d) == IF Len(d) > 1 /\ d[1] = 0 THEN Norm(Tail(d)) ELSE d

\* the digits of a machine-size number
RECURSIVE DigitsOf(_)
DigitsOf(k) == IF k < 10 THEN <<k>> ELSE DigitsOf(k \div 10) \o <<k % 10>>

BigLt(a, b) ==
    \/ Len(a) < Len(b)
    \/ /\ Len(a) = Len(b)
       /\ \E i \in 1..Len(a) :
             a[i] < b[i] /\ \A j \in 1..(i - 1) : a[j] = b[j]

BigLe(a, b) == a = b \/ BigLt(a, b)

RECURSIVE AddCarry(_, _, _)
AddCarry(a, b, c) ==
    IF a = <<>> /\ b = <<>>
    THEN IF c = 0 THEN <<>> ELSE <<c>>
    ELSE LET x == IF a = <<>> THEN 0 ELSE Last(a)
             y == IF b = <<>> THEN 0 ELSE Last(b)
             t == x + y + c
         IN  AddCarry(IF a = <<>> THEN a ELSE Front(a),
                      IF b = <<>> THEN b ELSE Front(b), t \div 10) \o <<t % 10>>

BigAdd(a, b) == Norm(AddCarry(a, b, 0))

\* a - b for a >= b
RECURSIVE SubBorrow(_, _, _)
SubBorrow(a, b, c) ==
    IF a = <<>>
    THEN <<>>
    ELSE LET y == IF b = <<>> THEN 0 ELSE Last(b)
             t == Last(a) - y - c
         IN  SubBorrow(Front(a), IF b = <<>> THEN b ELSE Front(b),
                       IF t < 0 THEN 1 ELSE 0) \o <<(t + 10) % 10>>

BigSub(a, b) == Norm(SubBorrow(a, b, 0))

\* a * k for a machine-size k
RECURSIVE MulCarry(_, _, _)
MulCarry(a, k, c) ==
    IF a = <<>>
    THEN IF c = 0 THEN <<>> ELSE DigitsOf(c)
    ELSE LET t == Last(a) * k + c
         IN  MulCarry(Front(a), k, t \div 10) \o <<t % 10>>

BigMul(a, k) == Norm(<<0>> \o MulCarry(a, k, 0))

\* quotient and remainder of a by a machine-size k
RECURSIVE DivRem(_, _, _, _)
DivRem(a, k, q, r) ==
    IF a = <<>>
    THEN [quot |-> Norm(q), rem |-> r]
    ELSE LET t == r * 10 + Head(a)
         IN  DivRem(Tail(a), k, q \o <<t \div k>>, t % k)

BigDivRem(a, k) == DivRem(a, k, <<0>>, 0)

\* u64::MAX = 18446744073709551615
U64MaxDigits == <<1, 8, 4, 4, 6, 7, 4, 4, 0, 7, 3, 7, 0, 9, 5, 5, 1, 6, 1, 5>>

Two64 == BigAdd(U64MaxDigits, <<1>>)

FitsU64(a) == BigLe(a, U64MaxDigits)

Zeros(k) == [i \in 1..k |-> 0]

\* one step of the long division of a by 2^64: a less the largest multiple
\* of 2^64 * 10^k with a one-digit factor that fits in it
ReduceAt(a, k) ==
    LET m == Two64 \o Zeros(k)
        fitting == {x \in 0..9 : BigLe(BigMul(m, x), a) /\ BigLt(a, BigMul(m, x + 1))}
    IN  CHOOSE r \in {BigSub(a, BigMul(m, x)) : x \in fitting} : TRUE

\* a modulo 2^64, what a wrapping u64 operation keeps; a is the result of one
\* u64 multiplication by AMOUNT_MULTIPLIER or of one u64 addition, so
\* a < 2^64 * 10^5 and five steps of the long division reach the remainder
WrapU64(a) ==
    IF FitsU64(a) THEN a
    ELSE CHOOSE r0 \in {ReduceAt(r1, 0) : r1 \in
                {ReduceAt(r2, 1) : r2 \in
                    {ReduceAt(r3, 2) : r3 \in
                        {ReduceAt(r4, 3) : r4 \in {ReduceAt(a, 4)}}}}} : TRUE

\* const AMOUNT_MULTIPLIER: u64 = 10_000
AMOUNT_MULTIPLIER == 10000

\* AMOUNT_RE: ^(?P<pre>\d+)(\.(?P<post>\d{1,4})(?P<dust>\d*))?$
Captures(text) ==
    LET dots == {i \in 1..Len(text) : text[i] = "."}
        digits_only == \A i \in 1..Len(text) : IsDigit(text[i]) \/ i \in dots
        none == [matched |-> FALSE, pre |-> <<>>, has_post |-> FALSE,
                 post |-> <<>>, dust |-> <<>>]
    IN  IF ~digits_only \/ Cardinality(dots) > 1
        THEN none
        ELSE IF dots = {}
        THEN IF Len(text) >= 1
             THEN [matched |-> TRUE, pre |-> text, has_post |-> FALSE,
                   post |-> <<>>, dust |-> <<>>]
             ELSE none
        ELSE LET d == CHOOSE i \in dots : TRUE
                 frac == SubSeq(text, d + 1, Len(text))
                 np == IF Len(frac) < 4 THEN Len(frac) ELSE 4
             IN  IF d = 1 \/ frac = <<>>
                 THEN none
                 ELSE [matched |-> TRUE, pre |-> SubSeq(text, 1, d - 1),
                       has_post |-> TRUE, post |-> SubSeq(frac, 1, np),
                       dust |-> SubSeq(frac, np + 1, Len(frac))]

\* str::parse::<u64>() on a string of digits: Err on the empty string and on
\* a value above u64::MAX; leading zeros are accepted
ParseU64(str) ==
    IF str = <<>>
    THEN [ok |-> FALSE, value |-> <<>>]
    ELSE LET v == Norm([i \in 1..Len(str) |-> DigitVal(str[i])])
         IN  IF FitsU64(v) THEN [ok |-> TRUE, value |-> v]
             ELSE [ok |-> FALSE, value |-> <<>>]

\* str::trim_end_matches('0')
RECURSIVE TrimEndZeros(_)
TrimEndZeros(str) ==
    IF str # <<>> /\ Last(str) = "0" THEN TrimEndZeros(Front(str)) ELSE str

\* the fraction taken at face value, whatever its number of digits
PostMultiplier_Unscaled(post_str) == 1

\* 10_u64.pow((4 - post_str.len()) as u32)
PostMultiplier(post_str) == 10 ^ (4 - Len(post_str))

ParseResult(k, v) == [kind |-> k, value |-> v]

\* impl FromStr for Amount.  oc: the build has overflow checks.
from_str(text, oc) ==
    LET captures == Captures(text)
    IN  IF ~captures.matched
        THEN ParseResult("InvalidFormat", <<>>)
        ELSE LET pre == ParseU64(captures.pre)
             IN  IF ~pre.ok
                 THEN ParseResult("OutOfRange", <<>>)
                 ELSE LET prod == BigMul(pre.value, AMOUNT_MULTIPLIER)
                          value == WrapU64(prod)
                      IN  IF oc /\ ~FitsU64(prod)
                          THEN ParseResult("Panic", <<>>)
                          ELSE IF ~captures.has_post
                          THEN ParseResult("Ok", value)
                          ELSE LET post_str == TrimEndZeros(captures.post)
                                   multiplier == PostMultiplier(post_str)
                                   post == ParseU64(post_str)
                               IN  IF ~post.ok
                                   THEN ParseResult("Panic", <<>>)
                                   ELSE LET sum == BigAdd(value,
                                                     BigMul(post.value, multiplier))
                                        IN  IF oc /\ ~FitsU64(sum)
                                            THEN ParseResult("Panic", <<>>)
                                            ELSE ParseResult("Ok", WrapU64(sum))

\* the text of a number as format! writes it, zero-padded to width w
Str(d, w) ==
    LET padded == IF Len(d) < w THEN Zeros(w - Len(d)) \o d ELSE d
    IN  [i \in 1..Len(padded) |-> DigitChars[padded[i] + 1]]

\* Display as first written (primitives.rs): the remainder is not padded
fmt_Unpadded(a) ==
    LET qr == BigDivRem(a, AMOUNT_MULTIPLIER)
    IN  IF qr.rem = 0
        THEN Str(qr.quot, 0)
        ELSE Str(qr.quot, 0) \o <<".">> \o Str(DigitsOf(qr.rem), 0)

\* impl fmt::Display for Amount
fmt(a) ==
    LET qr == BigDivRem(a, AMOUNT_MULTIPLIER)
    IN  IF qr.rem = 0
        THEN Str(qr.quot, 0)
        ELSE Str(qr.quot, 0) \o <<".">> \o Str(DigitsOf(qr.rem), 4)

\* format!("{pre}.{post}{dust}") of parse_amount_discards_dust
DustText(pre, post, dust) ==
    Str(pre, 0) \o <<".">> \o Str(DigitsOf(post), 0) \o Str(DigitsOf(dust), 0)

\* ------------------------------------------------------------------ state
VARIABLES
    client_state,      \* MemoryState.client_state : ClientId -> ClientState
    deposits,          \* MemoryState.deposits : TransactionId -> DepositRecord
    overflow_checks,   \* the build checks integer overflow (debug) or wraps (release)
    pc,                \* process_events: "running", "done" (returned), "panicked"
    left,              \* at most this many events remain in the input
    event,             \* the event handled last
    result,            \* what handle_event returned for it
    pre_client_state,  \* client_state when that call began
    pre_deposits,      \* deposits when that call began
    errors,            \* the errors argument of process_events: "None" or "Some"
    chan,              \* the reports in the channel: sent, not yet received
    rx,                \* the Receiver: "open", "dropped" ("none" without a sink)
    consumer,          \* the consumer thread: "receiving", "exited", "panicked"
    failed,            \* history: the errors handle_event returned, in order
    sent,              \* history: the errors for which send returned Ok, in order
    written,           \* history: the reports the consumer wrote to stderr, in order
    amt_in,            \* Amount exercise: what it starts from (text or Amount)
    amt_text,          \* Amount exercise: the text to parse
    amt_result,        \* Amount exercise: what from_str returned
    amt_pc             \* Amount exercise: "idle", "value", "text", "parsed"

ledger_vars == <<client_state, deposits, overflow_checks, pc, left, event, result,
                 pre_client_state, pre_deposits>>

sink_vars == <<errors, chan, rx, consumer, failed, sent, written>>

amount_vars == <<amt_in, amt_text, amt_result, amt_pc>>

vars == <<client_state, deposits, overflow_checks, pc, left, event, result,
          pre_client_state, pre_deposits, errors, chan, rx, consumer, failed, sent,
          written, amt_in, amt_text, amt_result, amt_pc>>

\* no Amount is being parsed or formatted
NoAmount ==
    /\ amt_in = [kind |-> "none"]
    /\ amt_text = <<>>
    /\ amt_result = ParseResult("None", <<>>)
    /\ amt_pc = "idle"

\* process_events was called with errors = None: there is no channel
NoSink ==
    /\ errors = "None"
    /\ chan = <<>>
    /\ rx = "none"
    /\ consumer = "none"
    /\ failed = <<>>
    /\ sent = <<>>
    /\ written = <<>>

NoEvent == [event_type |-> "None", client |-> 0, tx |-> 0, amount |-> 0]

\* MemoryState::default(), then process_events(&mut state, events, None)
Init ==
    /\ client_state = EmptyMap
    /\ deposits = EmptyMap
    /\ overflow_checks \in BOOLEAN
    /\ pc = "running"
    /\ left = MaxEvents
    /\ event = NoEvent
    /\ result = "None"
    /\ pre_client_state = EmptyMap
    /\ pre_deposits = EmptyMap
    /\ NoSink
    /\ NoAmount

\* The ledgers the property tests of primitives/mod.rs build by hand before
\* they apply events: client 1 with any balances and flag, and possibly a
\* deposit record of client 1 under tx 1, disputed or not.
SeededClientStates ==
    {EmptyMap} \cup
    {[c \in {1} |-> [available |-> a, held |-> h, locked |-> l]] :
        a \in 0..MaxAmount, h \in 0..MaxAmount, l \in BOOLEAN}

SeededDeposits ==
    {EmptyMap} \cup
    {[t \in {1} |-> [event |-> [event_type |-> "Deposit", client |-> 1, tx |-> 1,
                                amount |-> d],
                     is_disputed |-> b]] :
        d \in 0..MaxAmount, b \in BOOLEAN}

InitSeeded ==
    /\ client_state \in SeededClientStates
    /\ deposits \in SeededDeposits
    /\ deposits # EmptyMap => client_state # EmptyMap
    /\ overflow_checks \in BOOLEAN
    /\ pc = "running"
    /\ left = IF client_state = EmptyMap THEN MaxEvents ELSE SeedSteps
    /\ event = NoEvent
    /\ result = "None"
    /\ pre_client_state = client_state
    /\ pre_deposits = deposits
    /\ NoSink
    /\ NoAmount

\* one iteration of the for loop of process_events, up to the call of send
Apply(ev) ==
    /\ pc = "running"
    /\ left > 0
    /\ LET out == handle_event(client_state, deposits, ev, overflow_checks)
       IN  /\ client_state' = out.client_state
           /\ deposits' = out.deposits
           /\ result' = out.result
           /\ pc' = IF out.result = "Panic" THEN "panicked"
                    ELSE IF out.result \in EventErrors /\ errors = "Some"
                         THEN "sending"
                         ELSE "running"
           /\ failed' = IF out.result \in EventErrors /\ errors = "Some"
                        THEN Append(failed, ErrorOf(ev, out.result))
                        ELSE failed
    /\ event' = ev
    /\ left' = left - 1
    /\ pre_client_state' = client_state
    /\ pre_deposits' = deposits
    /\ UNCHANGED <<overflow_checks, errors, chan, rx, consumer, sent, written>>
    /\ UNCHANGED amount_vars

Deposit == \E c \in Clients, t \in TxIds, a \in Amounts :
    Apply([event_type |-> "Deposit", client |-> c, tx |-> t, amount |-> a])

Withdrawal == \E c \in Clients, t \in TxIds, a \in Amounts :
    Apply([event_type |-> "Withdrawal", client |-> c, tx |-> t, amount |-> a])

Dispute == \E c \in Clients, t \in TxIds, a \in Amounts :
    Apply([event_type |-> "Dispute", client |-> c, tx |-> t, amount |-> a])

Resolve == \E c \in Clients, t \in TxIds, a \in Amounts :
    Apply([event_type |-> "Resolve", client |-> c, tx |-> t, amount |-> a])

Chargeback == \E c \in Clients, t \in TxIds, a \in Amounts :
    Apply([event_type |-> "Chargeback", client |-> c, tx |-> t, amount |-> a])

\* the input iterator is exhausted: process_events returns
Finish ==
    /\ pc = "running"
    /\ pc' = "done"
    /\ UNCHANGED <<client_state, deposits, overflow_checks, left, event, result,
                   pre_client_state, pre_deposits>>
    /\ UNCHANGED sink_vars
    /\ UNCHANGED amount_vars

Next == Deposit \/ Withdrawal \/ Dispute \/ Resolve \/ Chargeback \/ Finish

Spec == Init /\ [][Next]_vars

\* the same driver started on a hand-built ledger
SpecSeeded == InitSeeded /\ [][Next]_vars

\* The ledger chargeback_burns_held_funds_and_locks builds: client 1, not yet
\* locked, holding at least the amount of its disputed deposit under tx 1.
\* More events follow the first than in the test.
InitChargeback ==
    /\ \E a \in 0..MaxAmount, h \in 0..MaxAmount, d \in 0..MaxAmount :
          /\ d <= h
          /\ client_state = [c \in {1} |-> [available |-> a, held |-> h,
                                            locked |-> FALSE]]
          /\ deposits = [t \in {1} |->
                           [event |-> [event_type |-> "Deposit", client |-> 1,
                                       tx |-> 1, amount |-> d],
                            is_disputed |-> TRUE]]
    /\ overflow_checks \in BOOLEAN
    /\ pc = "running"
    /\ left = LockSteps
    /\ event = NoEvent
    /\ result = "None"
    /\ pre_client_state = client_state
    /\ pre_deposits = deposits
    /\ NoSink
    /\ NoAmount

SpecLocked == InitChargeback /\ [][Next]_vars

\* ------------------------------------------------- the driver with a sink
\* main: with --debug, sync_channel(16) and the consumer thread spawned,
\* errors = Some(tx); without, errors = None.  Then MemoryState::default() and
\* process_events(&mut state, events, errors)
InitSink ==
    /\ client_state = EmptyMap
    /\ deposits = EmptyMap
    /\ overflow_checks \in BOOLEAN
    /\ pc = "running"
    /\ left = MaxSinkEvents
    /\ event = NoEvent
    /\ result = "None"
    /\ pre_client_state = EmptyMap
    /\ pre_deposits = EmptyMap
    /\ \/ NoSink
       \/ /\ errors = "Some"
          /\ chan = <<>>
          /\ rx = "open"
          /\ consumer = "receiving"
          /\ failed = <<>>
          /\ sent = <<>>
          /\ written = <<>>
    /\ NoAmount

\* the events of the input streams fed to the driver with a sink: a deposit,
\* a withdrawal that fails before it (UnknownClient), succeeds once after it
\* and fails again from then on (InsufficientFunds), and an ignored dispute
SinkEvents ==
    {[event_type |-> "Deposit", client |-> 1, tx |-> 1, amount |-> 1],
     [event_type |-> "Withdrawal", client |-> 1, tx |-> 2, amount |-> 1],
     [event_type |-> "Dispute", client |-> 1, tx |-> 2, amount |-> 0]}

TakeEvent == \E ev \in SinkEvents : Apply(ev)

\* process_events has returned or unwound: its SyncSender is dropped
SenderDropped == pc \in {"done", "stopped", "panicked"}

\* send written as a try_send whose failure on a full channel is ignored
Send_DropsWhenFull ==
    /\ pc = "sending"
    /\ rx = "open"
    /\ chan' = IF Len(chan) < Capacity THEN Append(chan, ErrorOf(event, result))
               ELSE chan
    /\ sent' = IF Len(chan) < Capacity THEN Append(sent, ErrorOf(event, result))
               ELSE sent
    /\ pc' = "running"
    /\ UNCHANGED <<client_state, deposits, overflow_checks, left, event, result,
                   pre_client_state, pre_deposits, errors, rx, consumer, failed,
                   written>>
    /\ UNCHANGED amount_vars

\* the channel made with channel() in place of sync_channel(16)
Send_Unbounded ==
    /\ pc = "sending"
    /\ rx = "open"
    /\ chan' = Append(chan, ErrorOf(event, result))
    /\ sent' = Append(sent, ErrorOf(event, result))
    /\ pc' = "running"
    /\ UNCHANGED <<client_state, deposits, overflow_checks, left, event, result,
                   pre_client_state, pre_deposits, errors, rx, consumer, failed,
                   written>>
    /\ UNCHANGED amount_vars

\* errors.send(err) returns Ok: there was room in the channel (send blocks
\* while the channel is full and the receiver lives)
Send ==
    /\ pc = "sending"
    /\ rx = "open"
    /\ Len(chan) < Capacity
    /\ chan' = Append(chan, ErrorOf(event, result))
    /\ sent' = Append(sent, ErrorOf(event, result))
    /\ pc' = "running"
    /\ UNCHANGED <<client_state, deposits, overflow_checks, left, event, result,
                   pre_client_state, pre_deposits, errors, rx, consumer, failed,
                   written>>
    /\ UNCHANGED amount_vars

\* the failed send ignored: the loop goes on to the next event
SendFails_Continues ==
    /\ pc = "sending"
    /\ rx = "dropped"
    /\ pc' = "running"
    /\ UNCHANGED <<client_state, deposits, overflow_checks, left, event, result,
                   pre_client_state, pre_deposits>>
    /\ UNCHANGED sink_vars
    /\ UNCHANGED amount_vars

\* errors.send(err) returns Err, the receiver is gone: break
SendFails ==
    /\ pc = "sending"
    /\ rx = "dropped"
    /\ pc' = "stopped"
    /\ UNCHANGED <<client_state, deposits, overflow_checks, left, event, result,
                   pre_client_state, pre_deposits>>
    /\ UNCHANGED sink_vars
    /\ UNCHANGED amount_vars

\* the consumer thread: rx.recv() returns Ok(err) and the report is written
Recv ==
    /\ consumer = "receiving"
    /\ chan # <<>>
    /\ chan' = Tail(chan)
    /\ written' = Append(written, Head(chan))
    /\ UNCHANGED ledger_vars
    /\ UNCHANGED <<errors, rx, consumer, failed, sent>>
    /\ UNCHANGED amount_vars

\* the consumer thread: rx.recv() returns Ok(err) but writeln! fails, expect
\* panics and the thread unwinds, dropping the receiver and what it holds
ConsumerPanics ==
    /\ consumer = "receiving"
    /\ chan # <<>>
    /\ chan' = <<>>
    /\ rx' = "dropped"
    /\ consumer' = "panicked"
    /\ UNCHANGED ledger_vars
    /\ UNCHANGED <<errors, failed, sent, written>>
    /\ UNCHANGED amount_vars

\* the consumer thread: rx.recv() returns Err (channel empty, sender dropped),
\* the while loop ends and the thread returns
ConsumerExits ==
    /\ consumer = "receiving"
    /\ chan = <<>>
    /\ SenderDropped
    /\ rx' = "dropped"
    /\ consumer' = "exited"
    /\ UNCHANGED ledger_vars
    /\ UNCHANGED <<errors, chan, failed, sent, written>>
    /\ UNCHANGED amount_vars

NextSink ==
    TakeEvent \/ Finish \/ Send \/ SendFails \/ Recv \/ ConsumerPanics \/ ConsumerExits

SpecSink == InitSink /\ [][NextSink]_vars

\* the two threads of main are scheduled: the main thread goes on with the
\* loop of process_events (or leaves it when the input ends), and the
\* consumer thread goes on with its recv loop
SpecSinkFair ==
    /\ SpecSink
    /\ WF_vars(TakeEvent \/ Finish \/ Send \/ SendFails)
    /\ WF_vars(Recv \/ ConsumerPanics \/ ConsumerExits)

\* --------------------------------------------- exercising parse and format
\* no ledger is involved
IdleLedger ==
    /\ client_state = EmptyMap
    /\ deposits = EmptyMap
    /\ overflow_checks \in BOOLEAN
    /\ pc = "done"
    /\ left = 0
    /\ event = NoEvent
    /\ result = "None"
    /\ pre_client_state = EmptyMap
    /\ pre_deposits = EmptyMap
    /\ NoSink

\* integer parts for the dust texts: the ends of 0..=9_999_999_999 and one
\* value between
PreSamples == {<<0>>, <<4, 2>>, <<9, 9, 9, 9, 9, 9, 9, 9, 9, 9>>}

DustSamples == {1, 9999}

\* the inputs of parse_amount_discards_dust, with post over the whole of
\* 1..=9999 (the test itself draws post from 1000..=9999)
InitDust ==
    /\ IdleLedger
    /\ \E p \in PreSamples, q \in 1..9999, d \in DustSamples :
          /\ amt_in = [kind |-> "dust", pre |-> p, post |-> q, dust |-> d]
          /\ amt_text = DustText(p, q, d)
    /\ amt_result = ParseResult("None", <<>>)
    /\ amt_pc = "text"

\* integer parts as written: plain and with leading zeros
SmallPreStrings == {Str(<<0>>, 0), Str(<<1, 0>>, 0), Str(<<7>>, 3)}

\* integer parts at and beyond the edges of the u64 range
EdgePreStrings ==
    {Str(<<1, 8, 4, 4, 6, 7, 4, 4, 0, 7, 3, 7, 0, 9, 5, 5>>, 0),
     Str(<<1, 8, 4, 4, 6, 7, 4, 4, 0, 7, 3, 7, 0, 9, 5, 6>>, 0),
     Str(U64MaxDigits, 0), Str(Two64, 0), Str(Two64 \o Zeros(4), 0)}

\* some fractional parts, among them longer ones than four digits
SomeFracStrings ==
    {Str(<<5>>, 0), Str(<<0>>, 0), Str(<<9>>, 5), Str(<<0>>, 5),
     Str(<<1, 2, 3, 4, 5, 6>>, 0), Str(<<1, 6, 1, 5>>, 0), Str(<<1, 6, 1, 6>>, 0),
     Str(<<9, 9, 9, 9>>, 0)}

\* texts that do not match the pattern
MalformedTexts ==
    {<<>>, <<".">>, <<".", "5">>, <<"1", ".">>, <<"1", ".", "2", ".", "3">>,
     <<"-", "1">>}

\* the text is <digits> or <digits>.<digits>, small integer parts with every
\* fractional part of one to four digits, all integer parts with some
\* fractional parts, or a malformed text
InitText ==
    /\ IdleLedger
    /\ \/ \E p \in SmallPreStrings \cup EdgePreStrings : amt_text = p
       \/ \E p \in SmallPreStrings, k \in 0..9999, w \in 1..4 :
             amt_text = p \o <<".">> \o Str(DigitsOf(k), w)
       \/ \E p \in SmallPreStrings \cup EdgePreStrings, f \in SomeFracStrings :
             amt_text = p \o <<".">> \o f
       \/ amt_text \in MalformedTexts
    /\ amt_in = [kind |-> "text"]
    /\ amt_result = ParseResult("None", <<>>)
    /\ amt_pc = "text"

\* values at the top of the u64 range
EdgeAmounts ==
    {U64MaxDigits, BigSub(U64MaxDigits, <<1, 6, 1, 5>>),
     BigSub(U64MaxDigits, <<1, 6, 1, 0>>), BigSub(U64MaxDigits, <<6, 1, 5>>),
     <<9, 2, 2, 3, 3, 7, 2, 0, 3, 6, 8, 5, 4, 7, 7, 5, 8, 0, 8>>}

\* the Amount to format: any scaled value up to MaxScaled, or one at the top
\* of the u64 range
InitRoundTrip ==
    /\ IdleLedger
    /\ \/ \E k \in 0..MaxScaled : amt_in = [kind |-> "amount", value |-> DigitsOf(k)]
       \/ \E v \in EdgeAmounts : amt_in = [kind |-> "amount", value |-> v]
    /\ amt_text = <<>>
    /\ amt_result = ParseResult("None", <<>>)
    /\ amt_pc = "value"

\* format!("{amount}"): Display::fmt
FormatAmount ==
    /\ amt_pc = "value"
    /\ amt_text' = fmt(amt_in.value)
    /\ amt_pc' = "text"
    /\ UNCHANGED <<amt_in, amt_result>>
    /\ UNCHANGED ledger_vars
    /\ UNCHANGED sink_vars

\* text.parse::<Amount>(): FromStr::from_str
ParseText ==
    /\ amt_pc = "text"
    /\ amt_result' = from_str(amt_text, overflow_checks)
    /\ amt_pc' = "parsed"
    /\ UNCHANGED <<amt_in, amt_text>>
    /\ UNCHANGED ledger_vars
    /\ UNCHANGED sink_vars

NextParse == ParseText

NextRoundTrip == FormatAmount \/ ParseText

SpecDust == InitDust /\ [][NextParse]_vars

SpecText == InitText /\ [][NextParse]_vars

SpecRoundTrip == InitRoundTrip /\ [][NextRoundTrip]_vars

\* ------------------------------------------------------------- properties
\* the last step applied event ev-kind k
Applied(k) == event.event_type = k

Unchanged == client_state = pre_client_state /\ deposits = pre_deposits

\* C1: a Deposit whose transaction id already has a deposit record returns
\* DuplicateTransactionId and changes neither the clients nor the records.
C1_DuplicateDepositRejected ==
    (Applied("Deposit") /\ event.tx \in DOMAIN pre_deposits) =>
        (result = "DuplicateTransactionId" /\ Unchanged)

\* C2: process_events with no error sink handles every event of every finite
\* stream and returns normally; no event makes it panic.
C2_NeverCrashes == pc # "panicked"

\* C3: when handle_event does not succeed, the client map and the deposit
\* records are exactly as they were before the call.
C3_FailureIsAtomic == (result \notin {"None", "Ok"}) => Unchanged

\* C4: whenever handle_event subtracts an amount from available or held, the
\* balance is at least the amount subtracted.
C4_NoSubtractionUnderflows ==
    \A s \in Subtractions(pre_client_state, pre_deposits, event) :
        ULe(s.amount, s.balance)

\* C5: a Withdrawal of w from a client with available A succeeds iff w <= A
\* and the account is not locked, and then available becomes A - w; otherwise
\* nothing changes and the error is InsufficientFunds when w > A, else
\* AccountLocked; for a client without a record it is UnknownClient and no
\* entry is created.  Held, locked, other clients and all records are kept.
C5_WithdrawalLaw ==
    Applied("Withdrawal") =>
        LET c == event.client
            w == event.amount
        IN  /\ deposits = pre_deposits
            /\ IF c \notin DOMAIN pre_client_state
               THEN result = "UnknownClient" /\ client_state = pre_client_state
               ELSE LET A == pre_client_state[c].available
                        locked == pre_client_state[c].locked
                    IN  IF ULe(w, A) /\ ~locked
                        THEN /\ result = "Ok"
                             /\ client_state =
                                  [pre_client_state EXCEPT ![c].available = A - w]
                        ELSE /\ client_state = pre_client_state
                             /\ result = IF ULt(A, w) THEN "InsufficientFunds"
                                         ELSE "AccountLocked"

\* a withdrawal of a positive amount that took exactly the client's whole
\* available balance
C5_Witness ==
    /\ Applied("Withdrawal")
    /\ result = "Ok"
    /\ event.amount > 0
    /\ pre_client_state[event.client].available = event.amount
    /\ client_state[event.client].available = 0

\* C6: a Deposit of d under a transaction id with no record always succeeds:
\* the client entry exists afterwards (created zero and unlocked if absent),
\* available has grown by exactly d, held and locked are as before, and one
\* record is added holding the event, undisputed.
C6_DepositLaw ==
    (Applied("Deposit") /\ event.tx \notin DOMAIN pre_deposits) =>
        LET c == event.client
            old == IF c \in DOMAIN pre_client_state THEN pre_client_state[c]
                   ELSE DefaultClientState
        IN  /\ result = "Ok"
            /\ ~AddOverflows(old.available, event.amount)
            /\ client_state =
                 Insert(pre_client_state, c,
                        [old EXCEPT !.available = @ + event.amount])
            /\ deposits =
                 Insert(pre_deposits, event.tx,
                        [event |-> event, is_disputed |-> FALSE])

\* the case C7 to C9 start from: the last event was a Dispute naming an
\* undisputed deposit record whose owner had at least its amount available
DisputedAffordable ==
    /\ Applied("Dispute")
    /\ event.tx \in DOMAIN pre_deposits
    /\ ~pre_deposits[event.tx].is_disputed
    /\ pre_deposits[event.tx].event.client \in DOMAIN pre_client_state
    /\ ULe(pre_deposits[event.tx].event.amount,
           pre_client_state[pre_deposits[event.tx].event.client].available)

\* C7: such a Dispute marks the record disputed and moves its amount d from
\* the owner's available to the owner's held; locked is unchanged.
C7_DisputeEffect ==
    DisputedAffordable =>
        LET rec == pre_deposits[event.tx]
            o == rec.event.client
            d == rec.event.amount
        IN  /\ deposits[event.tx].is_disputed
            /\ client_state[o].available = pre_client_state[o].available - d
            /\ client_state[o].held = pre_client_state[o].held + d
            /\ client_state[o].locked = pre_client_state[o].locked

\* the step applies an event of kind k to the transaction disputed last
ThenApplies(k) ==
    /\ DisputedAffordable
    /\ left' = left - 1
    /\ event'.event_type = k
    /\ event'.tx = event.tx

\* C8: Dispute(t) then Resolve(t) returns the owner's available and held to
\* their values before the Dispute and leaves the record undisputed.
C8_DisputeResolveInverse ==
    [][ThenApplies("Resolve") =>
        LET o == pre_deposits[event.tx].event.client
        IN  /\ client_state'[o].available = pre_client_state[o].available
            /\ client_state'[o].held = pre_client_state[o].held
            /\ ~deposits'[event.tx].is_disputed]_vars

\* C9: Dispute(t) then Chargeback(t) ends with the owner locked, held back at
\* its value H before the Dispute, and available at A - d.
C9_DisputeChargeback ==
    [][ThenApplies("Chargeback") =>
        LET o == pre_deposits[event.tx].event.client
            d == pre_deposits[event.tx].event.amount
        IN  /\ client_state'[o].locked
            /\ client_state'[o].held = pre_client_state[o].held
            /\ client_state'[o].available = pre_client_state[o].available - d]_vars

\* C10: a Dispute of a deposit that is under dispute fails with DoubleDispute
\* and moves no funds, so a second consecutive Dispute of the same deposit
\* moves nothing more.
C10_DoubleDisputeRejected ==
    [][ThenApplies("Dispute") =>
        /\ result' = "DoubleDispute"
        /\ client_state' = client_state]_vars

\* the last event was one the ledger is to ignore: a Dispute, Resolve or
\* Chargeback of an unknown transaction id, or a Resolve or Chargeback of a
\* record that was not under dispute
BenignCase ==
    \/ /\ event.event_type \in {"Dispute", "Resolve", "Chargeback"}
       /\ event.tx \notin DOMAIN pre_deposits
    \/ /\ event.event_type \in {"Resolve", "Chargeback"}
       /\ event.tx \in DOMAIN pre_deposits
       /\ ~pre_deposits[event.tx].is_disputed

\* C11: a Dispute, Resolve or Chargeback of an unknown transaction id, and a
\* Resolve or Chargeback of a record not under dispute, returns success and
\* leaves every client entry and every deposit record as it was.
C11_BenignNoOps == BenignCase => (result = "Ok" /\ Unchanged)

\* a Chargeback of an undisputed deposit of a positive amount whose owner
\* holds at least that amount: nothing moved, nothing locked
C11_Witness ==
    /\ Applied("Chargeback")
    /\ event.tx \in DOMAIN pre_deposits
    /\ ~pre_deposits[event.tx].is_disputed
    /\ pre_deposits[event.tx].event.amount > 0
    /\ ULe(pre_deposits[event.tx].event.amount,
           pre_client_state[pre_deposits[event.tx].event.client].held)
    /\ result = "Ok"
    /\ Unchanged

\* C15 as stated: every client id that was the client of an applied event,
\* of whatever kind, has a ClientState entry.
C15_EveryReferencedClientHasEntry ==
    (event.event_type \in EventTypes) => event.client \in DOMAIN client_state

\* C15 as amended: client entries follow deposits.  No entry is ever removed;
\* an entry appears only in the step that applies a Deposit for that client,
\* as a zero, unlocked entry credited with that deposit; every applied
\* Deposit leaves its client with an entry; no other kind of event creates
\* one.
C15_EntriesFollowDeposits ==
    [][/\ DOMAIN client_state \subseteq DOMAIN client_state'
       /\ \A c \in (DOMAIN client_state') \ (DOMAIN client_state) :
            /\ left' = left - 1
            /\ event'.event_type = "Deposit"
            /\ event'.client = c
            /\ client_state'[c] =
                 [DefaultClientState EXCEPT !.available = event'.amount]
       /\ (left' = left - 1 /\ event'.event_type = "Deposit") =>
            event'.client \in DOMAIN client_state']_vars

\* a Withdrawal named a client that has no entry, and still has none, while
\* another client has the entry its deposit created
C15_Witness ==
    /\ Applied("Withdrawal")
    /\ event.client \notin DOMAIN client_state
    /\ \E c \in DOMAIN client_state :
          \E t \in DOMAIN deposits : deposits[t].event.client = c

\* C20: when a Resolve or Chargeback takes effect on a disputed record, the
\* record is marked undisputed (so a further Resolve or Chargeback of it is
\* ignored and held is decremented once per dispute).
C20_SettledOnce ==
    (/\ event.event_type \in {"Resolve", "Chargeback"}
     /\ event.tx \in DOMAIN pre_deposits
     /\ pre_deposits[event.tx].is_disputed
     /\ result = "Ok") =>
        ~deposits[event.tx].is_disputed

\* C12: once the receiver is dropped, the first failing event makes send
\* fail and process_events stops: from the failed send on, no event is taken
\* and the ledger does not change, so the final ledger is the state right
\* after the failing event was handled.
C12_StopOnClosedSink ==
    /\ [](pc = "stopped" =>
            /\ rx = "dropped"
            /\ result \in EventErrors
            /\ LET out == handle_event(pre_client_state, pre_deposits, event,
                                       overflow_checks)
               IN  client_state = out.client_state /\ deposits = out.deposits)
    /\ [][/\ (pc = "sending" /\ rx = "dropped") =>
                (pc' \in {"sending", "stopped"}
                 /\ UNCHANGED <<client_state, deposits, left, event>>)
          /\ (pc = "stopped") =>
                (pc' = "stopped"
                 /\ UNCHANGED <<client_state, deposits, left, event>>)]_vars

\* the driver stopped on a failed send with input left over and a deposit
\* already applied
C12_Witness ==
    /\ pc = "stopped"
    /\ left > 0
    /\ DOMAIN deposits # {}
    /\ sent # <<>>

IsPrefix(a, b) == Len(a) <= Len(b) /\ a = SubSeq(b, 1, Len(a))

IsSuffix(a, b) == Len(a) <= Len(b) /\ a = SubSeq(b, Len(b) - Len(a) + 1, Len(b))

\* C13: the driver takes one event at a time and none while a send is
\* pending; an event that fails never stops the loop when there is no sink or
\* while the receiver lives; and the errors handed to the sink are exactly
\* the failures, one each, in the order of the failing events (the channel
\* holding the latest of them in that order).
C13_DriverOrdering ==
    /\ [](/\ IsPrefix(sent, failed)
          /\ (pc \in {"running", "done", "panicked"}) => sent = failed
          /\ (pc \in {"sending", "stopped"}) =>
                failed = Append(sent, ErrorOf(event, result))
          /\ (rx = "open") => IsSuffix(chan, sent)
          /\ (errors = "None") => pc \notin {"sending", "stopped"})
    /\ [][/\ left' \in {left, left - 1}
          /\ (pc = "sending") => left' = left
          /\ (pc = "sending" /\ rx = "open") => pc' \in {"sending", "running"}
          /\ (left' = left - 1 /\ result' \in EventErrors) =>
                pc' = IF errors = "Some" THEN "sending" ELSE "running"]_vars

\* two failures of different kinds were handed over in order, the first
\* already received, and the driver is back at the head of its loop
C13_Witness ==
    /\ pc = "running"
    /\ Len(sent) >= 2
    /\ sent[1] # sent[Len(sent)]
    /\ sent = failed
    /\ Len(chan) < Len(sent)
    /\ rx = "open"

\* C14: the channel never holds more than its capacity of 16 reports; while
\* it is full and the receiver lives the driver stays blocked in send and
\* takes no event and changes no balance.
C14_Backpressure ==
    /\ [](Len(chan) <= Capacity)
    /\ [][(pc = "sending" /\ rx = "open" /\ Len(chan) = Capacity) =>
            (pc' = "sending" /\ UNCHANGED <<client_state, deposits, left, event>>)]_vars

\* the channel is full and the driver is blocked with a seventeenth report
C14_Witness ==
    /\ pc = "sending"
    /\ rx = "open"
    /\ Len(chan) = Capacity
    /\ Len(failed) = Capacity + 1

\* pre * 10000 + post, the value parse_amount_discards_dust asserts
DustExpected ==
    BigAdd(BigMul(amt_in.pre, AMOUNT_MULTIPLIER), DigitsOf(amt_in.post))

\* C16 (as stated): for every pre in [0, 10^10), post in [1, 9999] and dust in
\* [1, 9999], parsing the digits of pre, a '.', the unpadded digits of post and
\* the digits of dust yields the Amount with scaled value pre * 10000 + post.
C16_DustFormulaEveryPost ==
    (amt_pc = "parsed" /\ amt_in.kind = "dust") =>
        amt_result = ParseResult("Ok", DustExpected)

\* C16 (amended): the same text parses to pre * 10000 + post when post is in
\* [1000, 9999], the range the test draws from; a shorter post leaves places
\* that the digits of dust fill, and the parsed value is then larger.
C16_DustFormulaFourDigitPost ==
    (amt_pc = "parsed" /\ amt_in.kind = "dust") =>
        /\ amt_result.kind = "Ok"
        /\ amt_in.post >= 1000 => amt_result.value = DustExpected
        /\ amt_in.post < 1000 => BigLt(DustExpected, amt_result.value)

\* the largest pre with a four-digit post that ends in zeros, the dust cut off
C16_Witness ==
    /\ amt_pc = "parsed"
    /\ amt_in.kind = "dust"
    /\ amt_in.pre = <<9, 9, 9, 9, 9, 9, 9, 9, 9, 9>>
    /\ amt_in.post = 1000
    /\ amt_in.dust = 9999
    /\ amt_result = ParseResult("Ok", DustExpected)

\* the digits a string of digit characters writes
DigitVals(str) == [i \in 1..Len(str) |-> DigitVal(str[i])]

\* what a text <digits> or <digits>.<f> denotes, scaled by 10000: the integer
\* part times 10000 plus the first four digits of f, right-padded with zeros
PositionalValue(text) ==
    LET captures == Captures(text)
    IN  BigAdd(BigMul(Norm(DigitVals(captures.pre)), AMOUNT_MULTIPLIER),
               Norm(DigitVals(captures.post) \o Zeros(4 - Len(captures.post))))

\* C17: every text <digits>.<f> with f of one or more digits parses, without
\* a panic, to the Amount with scaled value int(<digits>) * 10000 + the first
\* min(4, len(f)) digits of f right-padded to four places (stated for the
\* texts whose value fits a u64); a fraction of zeros gives the integer part.
C17_FractionTotalPositional ==
    (/\ amt_pc = "parsed"
     /\ amt_in.kind = "text"
     /\ Captures(amt_text).has_post
     /\ FitsU64(PositionalValue(amt_text))) =>
        amt_result = ParseResult("Ok", PositionalValue(amt_text))

\* C18: parsing the text that formatting an Amount produces yields the Amount
\* again, for every scaled value in the u64 range, fractional remainders below
\* 1000 included.
C18_RoundTrip ==
    (amt_pc = "parsed" /\ amt_in.kind = "amount") =>
        amt_result = ParseResult("Ok", amt_in.value)

\* scaled value 10005 was written as 1.0005 and read back
C18_Witness ==
    /\ amt_pc = "parsed"
    /\ amt_in.kind = "amount"
    /\ amt_in.value = <<1, 0, 0, 0, 5>>
    /\ amt_text = <<"1", ".", "0", "0", "0", "5">>
    /\ amt_result = ParseResult("Ok", amt_in.value)

\* C19: a text <digits> or <digits>.<digits> whose value scaled by 10000 does
\* not fit a u64 parses to OutOfRange: never to a wrapped Amount and never to
\* a panic, also when the integer part alone fits.
C19_OutOfRangeReported ==
    (/\ amt_pc = "parsed"
     /\ amt_in.kind = "text"
     /\ Captures(amt_text).matched
     /\ ~FitsU64(PositionalValue(amt_text))) =>
        amt_result.kind = "OutOfRange"

\* the last event was a Dispute, Resolve or Chargeback that names a deposit
\* record of another client than the one the event carries
ForeignReference ==
    /\ event.event_type \in {"Dispute", "Resolve", "Chargeback"}
    /\ event.tx \in DOMAIN pre_deposits
    /\ pre_deposits[event.tx].event.client # event.client

\* that event reached the balance updates: the owner has an entry, the record
\* was under dispute if the event is a Resolve or Chargeback, and no
\* arithmetic panicked
ReachedOwner ==
    /\ pre_deposits[event.tx].event.client \in DOMAIN pre_client_state
    /\ Applied("Dispute") \/ pre_deposits[event.tx].is_disputed
    /\ result # "Panic"

\* C21: a Dispute, Resolve or Chargeback whose event carries another client
\* than the owner of the referenced deposit changes the owner's balances (as
\* its kind prescribes) and nothing else: no entry is created, and every
\* other client, the one named in the event included, is as before.
C21_ActsOnOwner ==
    ForeignReference =>
        LET o == pre_deposits[event.tx].event.client
            d == pre_deposits[event.tx].event.amount
            was == pre_client_state[o]
        IN  /\ DOMAIN client_state = DOMAIN pre_client_state
            /\ \A c \in DOMAIN client_state \ {o} :
                  client_state[c] = pre_client_state[c]
            /\ ReachedOwner =>
                  /\ result = "Ok"
                  /\ client_state[o] =
                       CASE Applied("Dispute") ->
                              [was EXCEPT !.available = @ - d, !.held = @ + d]
                         [] Applied("Resolve") ->
                              [was EXCEPT !.held = @ - d, !.available = @ + d]
                         [] Applied("Chargeback") ->
                              [was EXCEPT !.held = @ - d, !.locked = TRUE]

\* client 2 has an entry and disputed a deposit of client 1: the funds of
\* client 1 moved, those of client 2 did not
C21_Witness ==
    /\ ForeignReference
    /\ Applied("Dispute")
    /\ event.client \in DOMAIN client_state
    /\ pre_deposits[event.tx].event.amount > 0
    /\ client_state[pre_deposits[event.tx].event.client].held > 0
    /\ client_state[event.client] = pre_client_state[event.client]

\* C22: an account becomes locked only when a Chargeback takes effect on a
\* disputed deposit of its client; a locked account stays locked; a
\* Withdrawal for a locked client fails and changes nothing; a Deposit to a
\* locked client under a new transaction id still credits it.
C22_LockPermanentBlocksWithdrawals ==
    /\ [][\A c \in DOMAIN client_state' :
            (client_state'[c].locked /\
             ~(c \in DOMAIN client_state /\ client_state[c].locked)) =>
                /\ event'.event_type = "Chargeback"
                /\ event'.tx \in DOMAIN deposits
                /\ deposits[event'.tx].is_disputed
                /\ deposits[event'.tx].event.client = c]_vars
    /\ [][\A c \in DOMAIN client_state :
            client_state[c].locked =>
                (c \in DOMAIN client_state' /\ client_state'[c].locked)]_vars
    /\ []((/\ Applied("Withdrawal")
           /\ event.client \in DOMAIN pre_client_state
           /\ pre_client_state[event.client].locked) =>
              /\ result \in {"InsufficientFunds", "AccountLocked"}
              /\ client_state = pre_client_state)
    /\ []((/\ Applied("Deposit")
           /\ event.client \in DOMAIN pre_client_state
           /\ pre_client_state[event.client].locked
           /\ event.tx \notin DOMAIN pre_deposits
           /\ result # "Panic") =>
              /\ result = "Ok"
              /\ client_state[event.client] =
                   [pre_client_state[event.client] EXCEPT
                       !.available = @ + event.amount])

\* a Chargeback locked client 1, and its next withdrawal, of a positive
\* amount it has available, was refused with AccountLocked
C22_Witness ==
    /\ Applied("Withdrawal")
    /\ left = LockSteps - 2
    /\ event.client \in DOMAIN pre_client_state
    /\ pre_client_state[event.client].locked
    /\ event.amount > 0
    /\ ULe(event.amount, pre_client_state[event.client].available)
    /\ result = "AccountLocked"
    /\ client_state = pre_client_state

\* process_events has returned, the consumer thread has drained the channel
\* and returned (so join returns Ok), and every report sent was written
ReportedAll ==
    /\ pc = "done"
    /\ consumer = "exited"
    /\ chan = <<>>
    /\ written = sent
    /\ sent = failed

\* C23: with the debug sink, whatever the input and the interleaving of the
\* two threads, the driver finishes, the consumer drains the channel and
\* exits, and every error sent has been written when the program ends.
C23_ReportingTerminates == (errors = "Some") => <>[]ReportedAll

\* the sum of the amounts of the records of dep under the ids in T
RECURSIVE SumAmounts(_, _)
SumAmounts(dep, T) ==
    IF T = {} THEN 0
    ELSE LET t == CHOOSE x \in T : TRUE
         IN  dep[t].event.amount + SumAmounts(dep, T \ {t})

\* the ids of the deposits of client c that are under dispute
DisputedOf(c) ==
    {t \in DOMAIN deposits : deposits[t].is_disputed /\ deposits[t].event.client = c}

\* C24: while process_events runs on a ledger that started empty, the held
\* balance of every client is the sum of the amounts of its deposit records
\* under dispute, zero when it has none.
C24_HeldIsDisputedSum ==
    pc # "panicked" =>
        \A c \in DOMAIN client_state :
            client_state[c].held = SumAmounts(deposits, DisputedOf(c))

\* a u64 as an integer: the representative, and one unit of 2^64 when the
\* representative is negative
Wide(x) == [lo |-> x, hi |-> IF x < 0 THEN 1 ELSE 0]

WidePlus(x, y) == [lo |-> x.lo + y.lo, hi |-> x.hi + y.hi]

WideMinus(x, y) == [lo |-> x.lo - y.lo, hi |-> x.hi - y.hi]

\* available + held of client c in cs as an integer, 0 without an entry
Total(cs, c) ==
    IF c \in DOMAIN cs
    THEN WidePlus(Wide(cs[c].available), Wide(cs[c].held))
    ELSE Wide(0)

\* what the event handled last adds to the funds of client c: its amount for
\* an accepted Deposit of c, minus its amount for a successful Withdrawal of
\* c, minus the deposit's amount for a Chargeback that took effect on a
\* deposit of c, nothing otherwise
FundsDelta(c) ==
    IF Applied("Deposit") /\ event.client = c /\ result = "Ok"
    THEN Wide(event.amount)
    ELSE IF Applied("Withdrawal") /\ event.client = c /\ result = "Ok"
    THEN WideMinus(Wide(0), Wide(event.amount))
    ELSE IF /\ Applied("Chargeback")
            /\ result = "Ok"
            /\ event.tx \in DOMAIN pre_deposits
            /\ pre_deposits[event.tx].is_disputed
            /\ pre_deposits[event.tx].event.client = c
    THEN WideMinus(Wide(0), Wide(pre_deposits[event.tx].event.amount))
    ELSE Wide(0)

\* C25: every client's total, available + held, is its accepted deposits less
\* its successful withdrawals less its charged-back deposits: the ledger
\* starts without funds and every event handled changes each total by exactly
\* its part in those sums, a Dispute or Resolve by nothing.
C25_FundsConserved ==
    pc # "panicked" =>
        \A c \in Clients :
            Total(client_state, c) =
                WidePlus(Total(pre_client_state, c), FundsDelta(c))

\* C26: every deposit record stores a Deposit event whose transaction id is
\* its key and whose client has an entry; a record appears only when a
\* Deposit event is handled, under that event's id, and none disappears; so
\* IllegalDispute is never returned, nor UnknownClient by a Dispute, Resolve
\* or Chargeback.
C26_RecordsWellFormed ==
    /\ \A t \in DOMAIN deposits :
          /\ deposits[t].event.event_type = "Deposit"
          /\ deposits[t].event.tx = t
          /\ deposits[t].event.client \in DOMAIN client_state
    /\ DOMAIN pre_deposits \subseteq DOMAIN deposits
    /\ DOMAIN deposits # DOMAIN pre_deposits =>
          /\ Applied("Deposit")
          /\ DOMAIN deposits = DOMAIN pre_deposits \cup {event.tx}
    /\ result # "IllegalDispute"
    /\ event.event_type \in {"Dispute", "Resolve", "Chargeback"} =>
          result # "UnknownClient"

\* two clients hold a record each, and a Dispute sent by one of them against
\* the other's deposit found the record and its owner
C26_Witness ==
    /\ Applied("Dispute")
    /\ Cardinality(DOMAIN deposits) = 2
    /\ event.tx \in DOMAIN pre_deposits
    /\ pre_deposits[event.tx].event.client # event.client
    /\ \E t \in DOMAIN deposits : deposits[t].event.client = event.client
    /\ result = "Ok"

====
